---- MODULE Spec2Model ----
(***************************************************************************)
(* Model of the XML configuration backend, core/config/xml/xml.go:         *)
(* the loader (Config.Parse / Config.ParseData) and the configuration      *)
(* handle (ConfigContainer) with its accessors, Sub, Set and               *)
(* SaveConfigFile.                                                         *)
(*                                                                         *)
(* Go strings that the code parses are sequences of one-character strings  *)
(* (<<"4","2">> is "42"); keys, paths and error names are plain strings.   *)
(* Go maps are heap objects: heap[i] is a function from the keys present   *)
(* to values, and a handle holds the index of its map, so that two handles *)
(* can reference one map.                                                  *)
(***************************************************************************)
EXTENDS Naturals, Sequences, FiniteSets

VARIABLES
    fs,        \* file system: path -> NoFile, Symlink or the file's content
    heap,      \* sequence of map objects (map[string]interface{})
    handles,   \* sequence of ConfigContainer objects
    last,      \* the last call and what it returned
    nsets,     \* number of Set calls so far
    pc,        \* per goroutine: position inside Set (concurrent specification)
    cur,       \* per goroutine: the arguments of the Set it is executing
    fatal      \* the process has ended with a runtime fault

vars == <<fs, heap, handles, last, nsets, pc, cur, fatal>>

----------------------------------------------------------------------------
(* Bounds of the model *)

MaxSets == 1
MaxHandles == 3

(* strconv.IntSize on the 64-bit build: the width of int, used by Atoi *)
IntSize == 64

----------------------------------------------------------------------------
(* Strings *)

V_true == <<"t","r","u","e">>
V_T == <<"T">>
V_1 == <<"1">>
V_5 == <<"5">>
V_neg3 == <<"-","3">>
V_007 == <<"0","0","7">>
V_list == <<"a",";","b">>
V_env == <<"$","{","P","}">>
V_42 == <<"4","2">>
V_hello == <<"h","i">>
V_0 == <<"0">>
V_F == <<"F">>
\* 9223372036854775808 = 2^63, one more than the largest int64
V_over64 == <<"9","2","2","3","3","7","2","0","3","6","8","5","4","7","7","5","8","0","8">>

DigitVal == [c \in {"0","1","2","3","4","5","6","7","8","9"} |->
               CASE c = "0" -> 0 [] c = "1" -> 1 [] c = "2" -> 2 [] c = "3" -> 3
                 [] c = "4" -> 4 [] c = "5" -> 5 [] c = "6" -> 6 [] c = "7" -> 7
                 [] c = "8" -> 8 [] c = "9" -> 9]

IsDigit(c) == c \in DOMAIN DigitVal

AllDigits(s) == \A i \in 1..Len(s) : IsDigit(s[i])

Tail0(s) == SubSeq(s, 2, Len(s))

\* the digits of s as numbers, leading zeros dropped (<<0>> for zero)
RECURSIVE StripZeros(_)
StripZeros(d) ==
    IF Len(d) > 1 /\ d[1] = 0 THEN StripZeros(Tail0(d)) ELSE d

Mag(s) == StripZeros([i \in 1..Len(s) |-> DigitVal[s[i]]])

\* a < b for magnitudes without leading zeros
RECURSIVE MagLess(_, _)
MagLess(a, b) ==
    IF Len(a) # Len(b) THEN Len(a) < Len(b)
    ELSE IF a = <<>> THEN FALSE
    ELSE IF a[1] # b[1] THEN a[1] < b[1]
    ELSE MagLess(Tail0(a), Tail0(b))

\* 2^(bitSize-1), 2^(bitSize-1) - 1 and 2^bitSize - 1 as magnitudes
Cutoff(bitSize) ==
    IF bitSize = 64 THEN <<9,2,2,3,3,7,2,0,3,6,8,5,4,7,7,5,8,0,8>>
    ELSE <<2,1,4,7,4,8,3,6,4,8>>
CutoffLess1(bitSize) ==
    IF bitSize = 64 THEN <<9,2,2,3,3,7,2,0,3,6,8,5,4,7,7,5,8,0,7>>
    ELSE <<2,1,4,7,4,8,3,6,4,7>>
MaxUint(bitSize) ==
    IF bitSize = 64 THEN <<1,8,4,4,6,7,4,4,0,7,3,7,0,9,5,5,1,6,1,5>>
    ELSE <<4,2,9,4,9,6,7,2,9,5>>

Num(neg, mag) == [neg |-> neg /\ mag # <<0>>, mag |-> mag]
Zero == Num(FALSE, <<0>>)

\* strconv.ParseUint(s, 10, bitSize)
ParseUint(s, bitSize) ==
    IF s = <<>> \/ ~AllDigits(s) THEN [mag |-> <<0>>, err |-> "ErrSyntax"]
    ELSE IF MagLess(MaxUint(bitSize), Mag(s))
         THEN [mag |-> MaxUint(bitSize), err |-> "ErrRange"]
         ELSE [mag |-> Mag(s), err |-> "nil"]

\* strconv.ParseInt(s, 10, bitSize); bitSize 0 means int
ParseInt(s, bitSize0) ==
    LET bitSize == IF bitSize0 = 0 THEN IntSize ELSE bitSize0
        neg == s # <<>> /\ s[1] = "-"
        body == IF s # <<>> /\ s[1] \in {"+", "-"} THEN Tail0(s) ELSE s
        u == ParseUint(body, bitSize)
    IN  IF s = <<>> THEN [val |-> Zero, err |-> "ErrSyntax"]
        ELSE IF u.err = "ErrSyntax" THEN [val |-> Zero, err |-> "ErrSyntax"]
        ELSE IF ~neg /\ ~MagLess(u.mag, Cutoff(bitSize))
             THEN [val |-> Num(FALSE, CutoffLess1(bitSize)), err |-> "ErrRange"]
        ELSE IF neg /\ MagLess(Cutoff(bitSize), u.mag)
             THEN [val |-> Num(TRUE, Cutoff(bitSize)), err |-> "ErrRange"]
        ELSE [val |-> Num(neg, u.mag), err |-> "nil"]

\* strconv.Atoi(s): ParseInt(s, 10, 0) narrowed to int
Atoi(s) == ParseInt(s, 0)

----------------------------------------------------------------------------
(* Values stored in a map[string]interface{} and the results of calls *)

Keys == {"a", "b", "c"}

Str(s) == [kind |-> "string", s |-> s]
MapRef(r) == [kind |-> "map", ref |-> r]
Nil == [kind |-> "nil"]

\* c.data[key]: the value, or the nil interface when the key is absent
Lookup(m, key) == IF key \in DOMAIN m THEN m[key] ELSE Nil

\* what a call returned: (val, err), or a runtime panic
Ret(val, err) == [val |-> val, err |-> err, panic |-> FALSE]
Panics(zero) == [val |-> zero, err |-> "nil", panic |-> TRUE]

\* a []string: the nil slice or the elements
NilSlice == [isnil |-> TRUE, elems |-> <<>>]
Slice(elems) == [isnil |-> FALSE, elems |-> elems]

----------------------------------------------------------------------------
(* Helpers of package config and of the libraries the handle calls *)

\* config.ParseBool: the permissive boolean-token parser
TrueTokens == {<<"1">>, <<"t">>, <<"T">>, <<"T","R","U","E">>,
               <<"t","r","u","e">>, <<"T","r","u","e">>}
FalseTokens == {<<"0">>, <<"f">>, <<"F">>, <<"F","A","L","S","E">>,
                <<"f","a","l","s","e">>, <<"F","a","l","s","e">>}
ParseBool(v) ==
    IF v.kind = "string" /\ v.s \in TrueTokens THEN Ret(TRUE, "nil")
    ELSE IF v.kind = "string" /\ v.s \in FalseTokens THEN Ret(FALSE, "nil")
    ELSE Ret(FALSE, "invalid syntax")

\* config.ToString: scalars pass through, composites are stringified
ToString(v) == IF v.kind = "string" THEN v.s ELSE <<"map[...]">>

\* config.ExpandValueEnv: "${NAME}" becomes the value of NAME in the
\* environment (here P=42, every other name unset); other text is kept
ExpandValueEnv(s) ==
    IF Len(s) >= 3 /\ s[1] = "$" /\ s[2] = "{" /\ s[Len(s)] = "}"
    THEN IF SubSeq(s, 3, Len(s) - 1) = <<"P">> THEN V_42 ELSE <<>>
    ELSE s

\* config.ExpandValueEnvForMap on one map object; the nested maps are the
\* other objects of the same conversion result and are expanded with it
ExpandValueEnvForMap(m) ==
    [k \in DOMAIN m |->
        IF m[k].kind = "string" THEN Str(ExpandValueEnv(m[k].s)) ELSE m[k]]

\* strconv.ParseFloat(s, 64) on plain decimal text: [sign] digits [. digits]
\* (the modelled strings hold no exponent, hex, inf, nan or underscore form);
\* the value is kept as the decimal it denotes
DotAt(s) == {i \in 1..Len(s) : s[i] = "."}
ParseFloat(s) ==
    LET neg == s # <<>> /\ s[1] = "-"
        body == IF s # <<>> /\ s[1] \in {"+", "-"} THEN Tail0(s) ELSE s
        dots == DotAt(body)
        dot == IF dots = {} THEN Len(body) + 1 ELSE CHOOSE i \in dots : TRUE
        ip == SubSeq(body, 1, dot - 1)
        fp == SubSeq(body, dot + 1, Len(body))
    IN  IF Cardinality(dots) > 1 \/ Len(ip) + Len(fp) = 0
           \/ ~AllDigits(ip) \/ ~AllDigits(fp)
        THEN Ret([neg |-> FALSE, ip |-> <<0>>, fp |-> <<>>], "ErrSyntax")
        ELSE Ret([neg |-> neg, ip |-> IF ip = <<>> THEN <<0>> ELSE Mag(ip),
                  fp |-> fp], "nil")

\* strings.Split(s, sep) for a one-character separator
RECURSIVE Split(_, _)
Split(s, sep) ==
    LET at == {i \in 1..Len(s) : s[i] = sep}
    IN  IF at = {} THEN <<s>>
        ELSE LET i == CHOOSE j \in at : \A k \in at : j <= k
             IN  <<SubSeq(s, 1, i - 1)>> \o Split(SubSeq(s, i + 1, Len(s)), sep)

----------------------------------------------------------------------------
(* The handle's accessors, as functions of the handle's map m = c.data *)

\* Bool with the absent key read as false instead of reported
Bool_AbsentFalse(m, key) ==
    IF Lookup(m, key) # Nil THEN ParseBool(Lookup(m, key))
    ELSE Ret(FALSE, "nil")

Bool(m, key) ==
    IF Lookup(m, key) # Nil THEN ParseBool(Lookup(m, key))
    ELSE Ret(FALSE, "not exist key")

DefaultBool(m, key, defaultVal) ==
    LET r == Bool(m, key)
    IN  IF r.err # "nil" THEN Ret(defaultVal, "nil") ELSE Ret(r.val, "nil")

\* c.data[key].(string): the single-value type assertion panics unless the
\* value is a string
Int(m, key) ==
    IF Lookup(m, key).kind # "string" THEN Panics(Zero)
    ELSE LET r == Atoi(Lookup(m, key).s) IN Ret(r.val, r.err)

DefaultInt(m, key, defaultVal) ==
    LET r == Int(m, key)
    IN  IF r.panic THEN r
        ELSE IF r.err # "nil" THEN Ret(defaultVal, "nil") ELSE Ret(r.val, "nil")

Int64(m, key) ==
    IF Lookup(m, key).kind # "string" THEN Panics(Zero)
    ELSE LET r == ParseInt(Lookup(m, key).s, 64) IN Ret(r.val, r.err)

DefaultInt64(m, key, defaultVal) ==
    LET r == Int64(m, key)
    IN  IF r.panic THEN r
        ELSE IF r.err # "nil" THEN Ret(defaultVal, "nil") ELSE Ret(r.val, "nil")

FloatZero == [neg |-> FALSE, ip |-> <<0>>, fp |-> <<>>]

Float(m, key) ==
    IF Lookup(m, key).kind # "string" THEN Panics(FloatZero)
    ELSE ParseFloat(Lookup(m, key).s)

DefaultFloat(m, key, defaultVal) ==
    LET r == Float(m, key)
    IN  IF r.panic THEN r
        ELSE IF r.err # "nil" THEN Ret(defaultVal, "nil") ELSE Ret(r.val, "nil")

String(m, key) ==
    IF Lookup(m, key).kind = "string" THEN Ret(Lookup(m, key).s, "nil")
    ELSE Ret(<<>>, "nil")

DefaultString(m, key, defaultVal) ==
    LET r == String(m, key)
    IN  IF r.val = <<>> \/ r.err # "nil" THEN Ret(defaultVal, "nil")
        ELSE Ret(r.val, "nil")

Strings(m, key) ==
    LET r == String(m, key)
    IN  IF r.val = <<>> \/ r.err # "nil" THEN Ret(NilSlice, r.err)
        ELSE Ret(Slice(Split(r.val, ";")), "nil")

DefaultStrings(m, key, defaultVal) ==
    LET r == Strings(m, key)
    IN  IF r.val.isnil \/ r.err # "nil" THEN Ret(defaultVal, "nil")
        ELSE Ret(r.val, "nil")

\* the map[string]string built from the section, or nil and an error
NoSection == [k \in {} |-> <<>>]
GetSection(hp, m, section) ==
    IF Lookup(m, section).kind = "map"
    THEN LET v == hp[Lookup(m, section).ref]
         IN  Ret([k \in DOMAIN v |-> ToString(v[k])], "nil")
    ELSE Ret(NoSection, "section not found")

DIY(m, key) ==
    IF key \in DOMAIN m THEN Ret(m[key], "nil")
    ELSE Ret(Nil, "not exist key")

\* sub with a missing key narrowing to the node itself
sub_MissingIsSelf(hp, data, key) ==
    IF key = "" \/ key \notin DOMAIN hp[data] THEN [ref |-> data, err |-> "nil"]
    ELSE IF hp[data][key].kind # "map"
         THEN [ref |-> 0, err |-> "the value of this key is not a structure"]
    ELSE [ref |-> hp[data][key].ref, err |-> "nil"]

\* c.sub(key): the reference of the map narrowed to (0 stands for nil)
sub(hp, data, key) ==
    IF key = "" THEN [ref |-> data, err |-> "nil"]
    ELSE IF key \notin DOMAIN hp[data]
         THEN [ref |-> 0, err |-> "the key is not found"]
    ELSE IF hp[data][key].kind # "map"
         THEN [ref |-> 0, err |-> "the value of this key is not a structure"]
    ELSE [ref |-> hp[data][key].ref, err |-> "nil"]

----------------------------------------------------------------------------
(* Documents. A file's content is a sequence of tokens standing for its     *)
(* bytes. x2j.DocToMap is a library outside the package: its result is      *)
(* given for each document below, as the top-level map d and the map        *)
(* objects it references (references count from 1 within the result).       *)

D_nested == <<"<config>", "<a>", "<b>", "<c>", "1", "</c>", "<a>", "F", "</a>",
              "</b>", "<c>", "0", "</c>", "</a>", "<b>", "T", "</b>",
              "</config>">>
D_flat == <<"<config>", "<a>", "true", "</a>", "<b>", "a;b", "</b>",
            "<c>", "${P}", "</c>", "</config>">>
D_other == <<"<app>", "<a>", "1", "</a>", "</app>">>
D_text == <<"<config>", "hi", "</config>">>
D_bad == <<"<config>", "<a>">>
D_empty == <<>>

Docs == {D_nested, D_flat, D_other, D_text, D_bad, D_empty}

NoMaps == [k \in {} |-> Nil]
Map1(k1, v1) == [k \in {k1} |-> v1]
Map2(k1, v1, k2, v2) == [k \in {k1, k2} |-> IF k = k1 THEN v1 ELSE v2]
Map3(k1, v1, k2, v2, k3, v3) ==
    [k \in {k1, k2, k3} |-> IF k = k1 THEN v1 ELSE IF k = k2 THEN v2 ELSE v3]

DocToMap(doc) ==
    IF doc = D_nested
    THEN [err |-> "nil", top |-> Map1("config", MapRef(1)),
          objs |-> << Map2("a", MapRef(2), "b", Str(V_T)),
                      Map2("b", MapRef(3), "c", Str(V_0)),
                      Map2("c", Str(V_1), "a", Str(V_F)) >>]
    ELSE IF doc = D_flat
    THEN [err |-> "nil", top |-> Map1("config", MapRef(1)),
          objs |-> << Map3("a", Str(V_true), "b", Str(V_list), "c", Str(V_env)) >>]
    ELSE IF doc = D_other
    THEN [err |-> "nil", top |-> Map1("app", MapRef(1)),
          objs |-> << Map1("a", Str(V_1)) >>]
    ELSE IF doc = D_text
    THEN [err |-> "nil", top |-> Map1("config", Str(V_hello)), objs |-> <<>>]
    ELSE [err |-> "xml syntax error", top |-> NoMaps, objs |-> <<>>]

\* a map object of a conversion result placed in the heap after off objects
Relocate(m, off) ==
    [k \in DOMAIN m |->
        IF m[k].kind = "map" THEN MapRef(m[k].ref + off) ELSE m[k]]

----------------------------------------------------------------------------
(* The loader *)

\* ParseData without the check that "config" holds a mapping: the empty
\* container made first is returned
ParseData_NoShapeCheck(hp, data) ==
    LET r == DocToMap(data)
        v == Lookup(r.top, "config")
        off == Len(hp)
    IN  IF r.err # "nil" THEN [heap |-> hp, data |-> 0, err |-> r.err]
        ELSE IF v = Nil
             THEN [heap |-> hp, data |-> 0,
                   err |-> "xml parse should include in <config></config> tags"]
        ELSE IF v.kind # "map"
             THEN [heap |-> hp \o << [k \in {} |-> Nil] >>, data |-> off + 1,
                   err |-> "nil"]
        ELSE [heap |-> hp \o [i \in 1..Len(r.objs) |->
                                ExpandValueEnvForMap(Relocate(r.objs[i], off))],
              data |-> v.ref + off, err |-> "nil"]

\* Config.ParseData: the heap afterwards, the handle's map (0: a nil
\* handle) and the error
ParseData(hp, data) ==
    LET r == DocToMap(data)
        v == Lookup(r.top, "config")
        off == Len(hp)
    IN  IF r.err # "nil" THEN [heap |-> hp, data |-> 0, err |-> r.err]
        ELSE IF v = Nil
             THEN [heap |-> hp, data |-> 0,
                   err |-> "xml parse should include in <config></config> tags"]
        ELSE IF v.kind # "map"
             THEN [heap |-> hp, data |-> 0,
                   err |-> "xml parse <config></config> tags should include sub tags"]
        ELSE [heap |-> hp \o [i \in 1..Len(r.objs) |->
                                ExpandValueEnvForMap(Relocate(r.objs[i], off))],
              data |-> v.ref + off, err |-> "nil"]

NoFile == [kind |-> "none"]
Symlink(to) == [kind |-> "symlink", to |-> to]
File(data) == [kind |-> "file", data |-> data]

\* os.ReadFile(filename); a symbolic link is followed
ReadFile(files, filename) ==
    LET f == IF files[filename].kind = "symlink"
             THEN files[files[filename].to] ELSE files[filename]
    IN  IF f.kind = "file" THEN [data |-> f.data, err |-> "nil"]
        ELSE [data |-> <<>>, err |-> "no such file or directory"]

\* Config.Parse
Parse(files, hp, filename) ==
    LET c == ReadFile(files, filename)
    IN  IF c.err # "nil" THEN [heap |-> hp, data |-> 0, err |-> c.err]
        ELSE ParseData(hp, c.data)

----------------------------------------------------------------------------
(* Sub, Set and SaveConfigFile *)

\* Sub wrapping a copy of the nested map
Sub_Copy(hp, data, key) ==
    LET s == sub(hp, data, key)
    IN  IF s.err # "nil" THEN [heap |-> hp, data |-> 0, err |-> s.err]
        ELSE [heap |-> hp \o <<hp[s.ref]>>, data |-> Len(hp) + 1, err |-> "nil"]

\* ConfigContainer.Sub: the heap afterwards, the new handle's map (0: a nil
\* handle) and the error. The new handle wraps the map sub returned.
Sub(hp, data, key) ==
    LET s == sub(hp, data, key)
    IN  [heap |-> hp, data |-> s.ref, err |-> s.err]

\* the write that keeps the value of a key already present
MapSet_KeepExisting(m, key, val) ==
    [k \in DOMAIN m \cup {key} |-> IF k \in DOMAIN m THEN m[k] ELSE Str(val)]

\* the write that stores the number when the value reads as one
MapSet_StoreParsed(m, key, val) ==
    [k \in DOMAIN m \cup {key} |->
        IF k # key THEN m[k]
        ELSE IF Atoi(val).err = "nil" THEN [kind |-> "int", n |-> Atoi(val).val]
        ELSE Str(val)]

\* c.data[key] = val
MapSet(m, key, val) ==
    [k \in DOMAIN m \cup {key} |-> IF k = key THEN Str(val) ELSE m[k]]

\* ConfigContainer.Unmarshaler: narrowing, then mapstructure.Decode into
\* obj, which succeeds or not with the target (decodes)
Unmarshaler(hp, data, prefix, decodes) ==
    LET s == sub(hp, data, prefix)
    IN  IF s.err # "nil" THEN Ret(0, s.err)
        ELSE IF decodes THEN Ret(0, "nil") ELSE Ret(0, "decode error")

\* os.OpenFile(filename, O_RDWR|O_CREATE|O_NOFOLLOW, 0600): no O_TRUNC.
\* The files afterwards and the error.
OpenFile(files, filename) ==
    IF files[filename].kind = "symlink"
    THEN [fs |-> files, err |-> "too many levels of symbolic links"]
    ELSE IF files[filename].kind = "none"
         THEN [fs |-> [files EXCEPT ![filename] = File(<<>>)], err |-> "nil"]
    ELSE [fs |-> files, err |-> "nil"]

\* xml.MarshalIndent(c.data, "  ", "    ") with c.data a
\* map[string]interface{}: encoding/xml marshals no map and returns an
\* UnsupportedTypeError
MarshalIndent(hp, data) ==
    [b |-> <<>>, err |-> "xml: unsupported type: map[string]interface {}"]

\* f.Write(b) on a file opened at offset 0 without truncation
Write(old, b) == b \o SubSeq(old, Len(b) + 1, Len(old))

\* ConfigContainer.SaveConfigFile: the files afterwards and the error
SaveConfigFile(files, hp, data, filename) ==
    LET o == OpenFile(files, filename)
        m == MarshalIndent(hp, data)
    IN  IF o.err # "nil" THEN [fs |-> files, err |-> o.err]
        ELSE IF m.err # "nil" THEN [fs |-> o.fs, err |-> m.err]
        ELSE [fs |-> [o.fs EXCEPT ![filename] = File(Write(@.data, m.b))],
              err |-> "nil"]

----------------------------------------------------------------------------
(* State machine *)

Paths == {"conf.xml", "out.xml", "link.xml"}
Procs == {"g1", "g2"}
SubKeys == Keys \cup {""}
SetKeys == {"a"}
SetVals == {V_5, V_007, V_neg3, V_over64}
HandleIds == 1..Len(handles)

\* a ConfigContainer: its map and its mutex; orig is the map that sub
\* returned when the handle was made
Handle(data, orig) == [data |-> data, locked |-> FALSE, orig |-> orig]

Call(op, h, key, arg, ret) ==
    [op |-> op, h |-> h, key |-> key, arg |-> arg, ret |-> ret]

NoCall == Call("none", 0, "", 0, Ret(0, "nil"))

\* the caller is between two calls, and no goroutine is inside Set
Ready == ~fatal /\ last = NoCall /\ \A p \in Procs : pc[p] = "idle"

Init ==
    /\ fs = [p \in Paths |->
               IF p = "conf.xml" THEN File(D_nested)
               ELSE IF p = "link.xml" THEN Symlink("conf.xml") ELSE NoFile]
    /\ heap = <<>>
    /\ handles = <<>>
    /\ last = NoCall
    /\ nsets = 0
    /\ pc = [p \in Procs |-> "idle"]
    /\ cur = [p \in Procs |-> [h |-> 0, key |-> "", val |-> <<>>]]
    /\ fatal = FALSE

\* the caller takes the result of its call; its next call can start
Return ==
    /\ ~fatal /\ last # NoCall
    /\ last' = NoCall
    /\ UNCHANGED <<fs, heap, handles, nsets, pc, cur, fatal>>

\* a loader call returned r: a handle is made when it succeeded. The model
\* follows one configuration: the loader is called until it yields a handle.
Loaded(op, arg, r) ==
    /\ heap' = r.heap
    /\ handles' = IF r.err = "nil"
                  THEN Append(handles, Handle(r.data, r.data))
                  ELSE handles
    /\ last' = Call(op, 0, "", arg,
                    Ret(IF r.err = "nil" THEN Len(handles) + 1 ELSE 0, r.err))
    /\ UNCHANGED <<fs, nsets, pc, cur, fatal>>

DoParseData(doc) ==
    /\ Ready
    /\ handles = <<>>
    /\ Loaded("ParseData", doc, ParseData(heap, doc))

DoParse(filename) ==
    /\ Ready
    /\ handles = <<>>
    /\ Loaded("Parse", filename, Parse(fs, heap, filename))

DoSub(h, key) ==
    LET r == Sub(heap, handles[h].data, key)
    IN  /\ Ready
        /\ r.err = "nil" => Len(handles) < MaxHandles
        /\ heap' = r.heap
        /\ handles' = IF r.err = "nil"
                      THEN Append(handles,
                             Handle(r.data, sub(heap, handles[h].data, key).ref))
                      ELSE handles
        /\ last' = Call("Sub", h, key, 0,
                        Ret(IF r.err = "nil" THEN Len(handles) + 1 ELSE 0, r.err))
        /\ UNCHANGED <<fs, nsets, pc, cur, fatal>>

\* a call that only reads returned r (or panicked: nothing recovers it)
Read(op, h, key, arg, r) ==
    /\ Ready
    /\ last' = Call(op, h, key, arg, r)
    /\ fatal' = r.panic
    /\ UNCHANGED <<fs, heap, handles, nsets, pc, cur>>

Data(h) == heap[handles[h].data]

DoBool(h, key) == Read("Bool", h, key, 0, Bool(Data(h), key))
DoDefaultBool(h, key, d) ==
    Read("DefaultBool", h, key, d, DefaultBool(Data(h), key, d))
DoInt(h, key) == Read("Int", h, key, 0, Int(Data(h), key))
DoDefaultInt(h, key, d) ==
    Read("DefaultInt", h, key, d, DefaultInt(Data(h), key, d))
DoInt64(h, key) == Read("Int64", h, key, 0, Int64(Data(h), key))
DoDefaultInt64(h, key, d) ==
    Read("DefaultInt64", h, key, d, DefaultInt64(Data(h), key, d))
DoFloat(h, key) == Read("Float", h, key, 0, Float(Data(h), key))
DoDefaultFloat(h, key, d) ==
    Read("DefaultFloat", h, key, d, DefaultFloat(Data(h), key, d))
DoString(h, key) == Read("String", h, key, 0, String(Data(h), key))
DoDefaultString(h, key, d) ==
    Read("DefaultString", h, key, d, DefaultString(Data(h), key, d))
DoStrings(h, key) == Read("Strings", h, key, 0, Strings(Data(h), key))
DoDefaultStrings(h, key, d) ==
    Read("DefaultStrings", h, key, d, DefaultStrings(Data(h), key, d))
DoGetSection(h, key) ==
    Read("GetSection", h, key, 0, GetSection(heap, Data(h), key))
DoDIY(h, key) == Read("DIY", h, key, 0, DIY(Data(h), key))
DoUnmarshaler(h, prefix, decodes) ==
    Read("Unmarshaler", h, prefix, decodes,
         Unmarshaler(heap, handles[h].data, prefix, decodes))
\* ConfigContainer.OnChange: logs a warning, does nothing
DoOnChange(h, key) == Read("OnChange", h, key, 0, Ret(0, "nil"))

\* ConfigContainer.Set: the heap after Lock, the write and Unlock
Set(hp, data, key, val) == [hp EXCEPT ![data] = MapSet(@, key, val)]

DoSet(h, key, val) ==
    /\ Ready
    /\ nsets < MaxSets
    /\ ~handles[h].locked
    /\ heap' = Set(heap, handles[h].data, key, val)
    /\ last' = Call("Set", h, key, val, Ret(0, "nil"))
    /\ nsets' = nsets + 1
    /\ UNCHANGED <<fs, handles, pc, cur, fatal>>

DoSaveConfigFile(h, filename) ==
    LET r == SaveConfigFile(fs, heap, handles[h].data, filename)
    IN  /\ Ready
        /\ fs' = r.fs
        /\ last' = Call("SaveConfigFile", h, filename, fs[filename],
                        Ret(0, r.err))
        /\ UNCHANGED <<heap, handles, nsets, pc, cur, fatal>>

DefInt == Num(FALSE, <<7>>)
DefFloat == [neg |-> FALSE, ip |-> <<2>>, fp |-> <<5>>]
DefString == <<"d">>
DefStrings == Slice(<<DefString>>)

Next ==
    \/ Return
    \/ \E doc \in Docs : DoParseData(doc)
    \/ \E f \in Paths : DoParse(f)
    \/ \E h \in HandleIds, k \in SubKeys : DoSub(h, k)
    \/ \E h \in HandleIds, k \in Keys : DoBool(h, k)
    \/ \E h \in HandleIds, k \in Keys, d \in BOOLEAN : DoDefaultBool(h, k, d)
    \/ \E h \in HandleIds, k \in Keys : DoInt(h, k)
    \/ \E h \in HandleIds, k \in Keys : DoDefaultInt(h, k, DefInt)
    \/ \E h \in HandleIds, k \in Keys : DoInt64(h, k)
    \/ \E h \in HandleIds, k \in Keys : DoDefaultInt64(h, k, DefInt)
    \/ \E h \in HandleIds, k \in Keys : DoFloat(h, k)
    \/ \E h \in HandleIds, k \in Keys : DoDefaultFloat(h, k, DefFloat)
    \/ \E h \in HandleIds, k \in Keys : DoString(h, k)
    \/ \E h \in HandleIds, k \in Keys : DoDefaultString(h, k, DefString)
    \/ \E h \in HandleIds, k \in Keys : DoStrings(h, k)
    \/ \E h \in HandleIds, k \in Keys : DoDefaultStrings(h, k, DefStrings)
    \/ \E h \in HandleIds, k \in Keys : DoGetSection(h, k)
    \/ \E h \in HandleIds, k \in Keys : DoDIY(h, k)
    \/ \E h \in HandleIds, k \in SubKeys, ok \in BOOLEAN : DoUnmarshaler(h, k, ok)
    \/ \E h \in HandleIds, k \in Keys : DoOnChange(h, k)
    \/ \E h \in HandleIds, k \in SetKeys, v \in SetVals : DoSet(h, k, v)
    \/ \E h \in HandleIds, f \in Paths : DoSaveConfigFile(h, f)

Spec == Init /\ [][Next]_vars

----------------------------------------------------------------------------
(* Concurrent callers of Set. Each goroutine calls Set again and again; a   *)
(* call is Lock, the write c.data[key] = val, and the deferred Unlock.      *)
(* Loading and narrowing happen while no goroutine is inside Set.           *)

ConcVals == {V_5, V_007}

SetLock(p, h, key, val) ==
    /\ ~fatal /\ last = NoCall
    /\ pc[p] = "idle"
    /\ ~handles[h].locked
    /\ handles' = [handles EXCEPT ![h].locked = TRUE]
    /\ pc' = [pc EXCEPT ![p] = "write"]
    /\ cur' = [cur EXCEPT ![p] = [h |-> h, key |-> key, val |-> val]]
    /\ UNCHANGED <<fs, heap, last, nsets, fatal>>

\* another goroutine is inside its write to the same map object
Racing(p) ==
    \E q \in Procs \ {p} :
        /\ pc[q] = "write"
        /\ handles[cur[q].h].data = handles[cur[p].h].data

SetWrite(p) ==
    /\ ~fatal
    /\ pc[p] = "write"
    /\ heap' = Set(heap, handles[cur[p].h].data, cur[p].key, cur[p].val)
    /\ pc' = [pc EXCEPT ![p] = "unlock"]
    /\ UNCHANGED <<fs, handles, last, nsets, cur, fatal>>

\* two unsynchronised writes to one Go map are a data race: the write may
\* go through (SetWrite) or the runtime ends the process with
\* "fatal error: concurrent map writes"
SetFault(p) ==
    /\ ~fatal
    /\ pc[p] = "write"
    /\ Racing(p)
    /\ fatal' = TRUE
    /\ UNCHANGED <<fs, heap, handles, last, nsets, pc, cur>>

SetUnlock(p) ==
    /\ ~fatal
    /\ pc[p] = "unlock"
    /\ handles' = [handles EXCEPT ![cur[p].h].locked = FALSE]
    /\ pc' = [pc EXCEPT ![p] = "idle"]
    /\ UNCHANGED <<fs, heap, last, nsets, cur, fatal>>

NextConc ==
    \/ Return
    \/ \E doc \in Docs : DoParseData(doc)
    \/ \E f \in Paths : DoParse(f)
    \/ \E h \in HandleIds, k \in SubKeys : DoSub(h, k)
    \/ \E p \in Procs, h \in HandleIds, k \in SetKeys, v \in ConcVals :
          SetLock(p, h, k, v)
    \/ \E p \in Procs : SetWrite(p)
    \/ \E p \in Procs : SetFault(p)
    \/ \E p \in Procs : SetUnlock(p)

SpecConc == Init /\ [][NextConc]_vars

----------------------------------------------------------------------------
(* Properties *)

DefaultOps == {"DefaultBool", "DefaultInt", "DefaultInt64", "DefaultFloat",
               "DefaultString", "DefaultStrings"}

\* the map of the handle the last call was made on
LastData == heap[handles[last.h].data]

\* C1: for a key absent from the handle's mapping, every default-valued
\* wrapper returns the default it was given and does not fail.
C1_DefaultsAbsorbAbsence ==
    (last.op \in DefaultOps /\ last.key \notin DOMAIN LastData)
        => (~last.ret.panic /\ last.ret.err = "nil" /\ last.ret.val = last.arg)

\* the part of C1 the code keeps: the wrappers built on Bool and String
\* (DefaultBool, DefaultString, DefaultStrings) return the default
DefaultsOverBoolAndString ==
    (last.op \in {"DefaultBool", "DefaultString", "DefaultStrings"}
       /\ last.key \notin DOMAIN LastData)
        => (~last.ret.panic /\ last.ret.err = "nil" /\ last.ret.val = last.arg)

\* the conversion of a document gives a top-level "config" that is a mapping
Usable(doc) ==
    /\ DocToMap(doc).err = "nil"
    /\ "config" \in DOMAIN DocToMap(doc).top
    /\ DocToMap(doc).top["config"].kind = "map"

\* the document a loader call was given (none when the file is unreadable)
LoadedDoc ==
    IF last.op = "ParseData" THEN last.arg ELSE ReadFile(fs, last.arg).data
LoadRead ==
    last.op = "ParseData" \/ ReadFile(fs, last.arg).err = "nil"

\* C2: ParseData, and Parse which delegates to it, return a handle exactly
\* when the conversion succeeds and its "config" value is a mapping; in every
\* other case they return an error and the nil handle, and nothing of a
\* configuration is left behind.
C2_LoadHandleIff ==
    last.op \in {"ParseData", "Parse"} =>
        IF LoadRead /\ Usable(LoadedDoc)
        THEN /\ last.ret.err = "nil"
             /\ last.ret.val = Len(handles) /\ last.ret.val > 0
             /\ handles[last.ret.val].data \in 1..Len(heap)
             /\ DOMAIN heap[handles[last.ret.val].data] =
                  DOMAIN DocToMap(LoadedDoc).objs[DocToMap(LoadedDoc).top["config"].ref]
        ELSE /\ last.ret.err # "nil"
             /\ last.ret.val = 0
             /\ handles = <<>> /\ heap = <<>>

C2_Witness ==
    /\ last.op = "ParseData" /\ last.arg = D_text
    /\ last.ret.val = 0 /\ last.ret.err # "nil"

C2_WitnessLoaded ==
    last.op = "Parse" /\ last.ret.err = "nil" /\ Len(handles) = 1

\* scalars of map d1 of heap h1 are in map d2 of heap h2, names and nesting kept
RECURSIVE ScalarsKept(_, _, _, _, _)
ScalarsKept(h1, d1, h2, d2, fuel) ==
    \A k \in DOMAIN h1[d1] :
        /\ k \in DOMAIN h2[d2]
        /\ IF h1[d1][k].kind = "string" THEN h2[d2][k] = h1[d1][k]
           ELSE /\ h2[d2][k].kind = "map"
                /\ fuel > 0
                /\ ScalarsKept(h1, h1[d1][k].ref, h2, h2[d2][k].ref, fuel - 1)

\* C4: round trip: saving a loaded configuration to a new path succeeds, and
\* loading the written file succeeds and gives every scalar of the handle
\* under the same names and nesting.
C4_RoundTrip ==
    (last.op = "SaveConfigFile" /\ last.arg = NoFile) =>
        /\ last.ret.err = "nil"
        /\ LET r == Parse(fs, heap, last.key)
           IN  /\ r.err = "nil"
               /\ ScalarsKept(heap, handles[last.h].data, r.heap, r.data,
                              Len(heap))

\* what SaveConfigFile does instead: it returns the marshalling error, a
\* missing file is left created and empty, an existing one untouched
SaveAlwaysFails ==
    last.op = "SaveConfigFile" =>
        /\ last.ret.err # "nil"
        /\ fs[last.key] = IF last.arg = NoFile THEN File(<<>>) ELSE last.arg

\* C5: of the concurrent Set calls that write to one map object, at most one
\* is inside its write at any time, whether they go through one handle or
\* through different handles that reference the same map.
C5_WritersExcluded ==
    \A p, q \in Procs :
        (p # q /\ pc[p] = "write" /\ pc[q] = "write")
            => handles[cur[p].h].data # handles[cur[q].h].data

\* the part of C5 the mutex gives: two Set calls through one handle are
\* never both between Lock and Unlock
SameHandleExcluded ==
    \A p, q \in Procs :
        (p # q /\ pc[p] # "idle" /\ pc[q] # "idle") => cur[p].h # cur[q].h

\* C6: Sub makes no copy. After a Set(J, V) through a handle that Sub made,
\* narrowing any handle to the same mapping and reading String(J) gives V,
\* GetSection of that key maps J to V, and for the empty key the parent
\* itself reads V.
C6_SubSharesMapping ==
    last.op = "Set" =>
        \A p \in HandleIds, K \in SubKeys :
            LET s == Sub(heap, handles[p].data, K)
            IN  (s.err = "nil"
                   /\ sub(heap, handles[p].data, K).ref = handles[last.h].orig)
                => /\ String(s.heap[s.data], last.key) = Ret(last.arg, "nil")
                   /\ K # "" =>
                        LET g == GetSection(heap, heap[handles[p].data], K)
                        IN  /\ g.err = "nil"
                            /\ last.key \in DOMAIN g.val
                            /\ g.val[last.key] = last.arg
                   /\ K = "" =>
                        String(heap[handles[p].data], last.key)
                            = Ret(last.arg, "nil")

C6_Witness ==
    /\ last.op = "Set" /\ last.h > 1
    /\ \E p \in HandleIds \ {last.h} :
          /\ sub(heap, handles[p].data, "a").err = "nil"
          /\ sub(heap, handles[p].data, "a").ref = handles[last.h].orig
    /\ \E p \in HandleIds \ {last.h} :
          sub(heap, handles[p].data, "").ref = handles[last.h].orig

\* base-10 integer literals with the numbers they denote; fits: the number
\* is in the range of int64 (and of int, which is 64 bits wide here)
IntLiterals ==
    { [s |-> V_5, n |-> [neg |-> FALSE, mag |-> <<5>>], fits |-> TRUE],
      [s |-> V_007, n |-> [neg |-> FALSE, mag |-> <<7>>], fits |-> TRUE],
      [s |-> V_neg3, n |-> [neg |-> TRUE, mag |-> <<3>>], fits |-> TRUE],
      [s |-> V_over64,
       n |-> [neg |-> FALSE, mag |-> <<9,2,2,3,3,7,2,0,3,6,8,5,4,7,7,5,8,0,8>>],
       fits |-> FALSE] }

\* a step of Set(K, V) with V among lits: Set succeeds, Int, Int64 and String
\* of K then give V's number and V, and the other keys keep their values
SetThenRead(lits) ==
    (nsets' = nsets + 1 /\ \E l \in lits : l.s = last'.arg) =>
        LET l == CHOOSE x \in lits : x.s = last'.arg
            before == heap[handles[last'.h].data]
            after == heap'[handles'[last'.h].data]
        IN  /\ last'.op = "Set" /\ last'.ret.err = "nil"
            /\ Int(after, last'.key) = Ret(l.n, "nil")
            /\ Int64(after, last'.key) = Ret(l.n, "nil")
            /\ String(after, last'.key) = Ret(l.s, "nil")
            /\ DOMAIN after = DOMAIN before \cup {last'.key}
            /\ \A k \in DOMAIN before \ {last'.key} : after[k] = before[k]

\* C7 as stated: for any key and any base-10 integer literal V with number
\* n, after Set(K, V) Int(K) and Int64(K) return (n, nil), String(K) returns
\* (V, nil), and every other key keeps its value.
C7_SetThenReadAnyLiteral == [][SetThenRead(IntLiterals)]_vars

\* C7 amended: the same for the literals whose number is in the range of
\* the result type.
C7_SetThenReadInRange ==
    [][SetThenRead({l \in IntLiterals : l.fits})]_vars

\* a literal out of range is stored as it is and read back as a range error
C7_OutOfRange ==
    (last.op = "Set" /\ last.arg = V_over64) =>
        /\ Int(LastData, last.key).err = "ErrRange"
        /\ Int64(LastData, last.key).err = "ErrRange"
        /\ String(LastData, last.key) = Ret(V_over64, "nil")

C7_Witness ==
    /\ last.op = "Set" /\ last.arg = V_007 /\ last.h = 1 /\ last.key = "a"
    /\ Len(heap) = 3
    /\ Int(LastData, "a") = Ret([neg |-> FALSE, mag |-> <<7>>], "nil")

\* C8: narrowing composes along a path: where a holds a mapping that holds
\* b, a mapping that holds the scalar c, Sub("a") then Sub("b") gives a
\* handle whose DIY("c") is that scalar; Sub("") gives a handle over the
\* node itself; Sub(K) gives an error and no handle when K is absent or holds
\* no mapping.
C8_SubComposes ==
    /\ \A p \in HandleIds :
          LET m == heap[handles[p].data]
              s1 == Sub(heap, handles[p].data, "a")
              s2 == Sub(s1.heap, s1.data, "b")
          IN  (/\ Lookup(m, "a").kind = "map"
               /\ Lookup(heap[m["a"].ref], "b").kind = "map"
               /\ Lookup(heap[heap[m["a"].ref]["b"].ref], "c").kind = "string")
              => /\ s1.err = "nil" /\ s2.err = "nil"
                 /\ DIY(s2.heap[s2.data], "c")
                      = Ret(heap[heap[m["a"].ref]["b"].ref]["c"], "nil")
    /\ (last.op = "DIY" /\ last.key \in DOMAIN heap[handles[last.h].orig])
          => last.ret = Ret(heap[handles[last.h].orig][last.key], "nil")
    /\ (last.op = "Sub" /\ last.key = "")
          => /\ last.ret.err = "nil"
             /\ last.ret.val = Len(handles)
             /\ handles[last.ret.val].data = handles[last.h].data
    /\ (last.op = "Sub" /\ last.key # "" /\ Lookup(LastData, last.key).kind # "map")
          => /\ last.ret.err # "nil" /\ last.ret.val = 0
    /\ (last.op = "Sub" /\ last.key # "" /\ Lookup(LastData, last.key).kind = "map")
          => /\ last.ret.err = "nil"
             /\ last.ret.val = Len(handles)
             /\ handles[last.ret.val].data = LastData[last.key].ref

C8_Witness ==
    /\ last.op = "DIY" /\ last.key = "c" /\ last.ret = Ret(Str(V_1), "nil")
    /\ Len(handles) = 3
    /\ Lookup(heap[handles[1].data], "a") = MapRef(handles[2].orig)
    /\ Lookup(heap[handles[2].data], "b") = MapRef(handles[3].orig)
    /\ last.h = 3

\* the tokens C9 names, and those with "T" and "F"
ClaimedTrue == {<<"1">>, <<"t">>, <<"t","r","u","e">>, <<"T","R","U","E">>,
                <<"T","r","u","e">>}
ClaimedFalse == {<<"0">>, <<"f">>, <<"f","a","l","s","e">>,
                 <<"F","A","L","S","E">>, <<"F","a","l","s","e">>}

BoolReads(yes, no) ==
    last.op = "Bool" =>
        LET v == Lookup(LastData, last.key)
        IN  /\ (v.kind = "string" /\ v.s \in yes) => last.ret = Ret(TRUE, "nil")
            /\ (v.kind = "string" /\ v.s \in no) => last.ret = Ret(FALSE, "nil")
            /\ (v.kind = "string" /\ v.s \notin yes \cup no)
                   => last.ret.err = "invalid syntax"
            /\ v = Nil => last.ret.err = "not exist key"

C9_WitnessFalse ==
    /\ last.op = "Bool" /\ Lookup(LastData, last.key) = Str(V_0)
    /\ last.ret = Ret(FALSE, "nil")

\* every value of every map is a string or a reference to a map
TreeTyped(hp) ==
    \A i \in 1..Len(hp) : \A k \in DOMAIN hp[i] :
        \/ /\ hp[i][k].kind = "string"
           /\ DOMAIN hp[i][k] = {"kind", "s"}
        \/ /\ hp[i][k].kind = "map"
           /\ hp[i][k].ref \in 1..Len(hp)

TreeChangingOps == {"ParseData", "Parse", "Set"}

\* C10: in every state reached from a load by the handle operations, every
\* stored value is a string or a nested mapping (no parsed number or boolean
\* is stored), and every operation but Set leaves the tree as it was.
C10_StringsAtRest ==
    [][/\ TreeTyped(heap')
       /\ last'.op \notin TreeChangingOps => heap' = heap]_vars

C10_Witness ==
    /\ last.op = "Int" /\ last.ret = Ret([neg |-> FALSE, mag |-> <<7>>], "nil")
    /\ nsets > 0
    /\ LastData[last.key] = Str(V_007)

====
